---- MODULE Spec2Model ----
(***************************************************************************)
(* Netlist generation of the circuit editor (204_frontend.py):             *)
(*   DisjointSet (add / find / union), rename_columns_with_dsu and         *)
(*   CircuitGraph (add_component / remove_component / add_connection /     *)
(*   generate_netlist).                                                    *)
(*                                                                         *)
(* A Python dict is modelled by its key list in insertion order (keys)     *)
(* together with a function on those keys; a Python list by a sequence.    *)
(* A row [name, n1, n2, value] is the 4-tuple <<name, n1, n2, value>>, so  *)
(* comp[1] and comp[2] of the source are row[2] and row[3] here.           *)
(***************************************************************************)
EXTENDS Naturals, Sequences, FiniteSets, TLC

VARIABLES
    dsu,          \* a DisjointSet object: [keys, parent, rank]
    classes,      \* history: the partition generated by the union calls made on dsu
    ret,          \* history: the last find call on dsu, [x, root, visited, before]
    rows,         \* the components argument of a rename_columns_with_dsu call
    wires,        \* the connections argument of a rename_columns_with_dsu call
    renamed,      \* the outcome of that call, or NoCall
    components,   \* CircuitGraph.components
    connections,  \* CircuitGraph.connections
    call,         \* the last generate_netlist call since the last edit, or NoCall
    prev,         \* the rows returned by the generate_netlist call before that, or NoCall
    selected_tool,      \* CircuitGUI.selected_tool
    wire_mode,          \* CircuitGUI.wire_mode
    delete_mode,        \* CircuitGUI.delete_mode
    component_counter,  \* CircuitGUI.component_counter
    gui_nodes,          \* the keys of CircuitGUI.nodes
    canvas_wires,       \* CircuitGUI.wires
    history,            \* CircuitGUI.history
    pending_terminals,  \* CircuitGUI.pending_terminals
    last                \* history: what the last editor action was

vars == <<dsu, classes, ret, rows, wires, renamed, components, connections, call, prev,
          selected_tool, wire_mode, delete_mode, component_counter, gui_nodes, canvas_wires,
          history, pending_terminals, last>>

dsuVars == <<dsu, classes, ret>>
renameVars == <<rows, wires, renamed>>
graphVars == <<components, connections, call, prev>>
guiVars == <<selected_tool, wire_mode, delete_mode, component_counter, gui_nodes, canvas_wires,
             history, pending_terminals, last>>

GROUND == "Ground"
NoCall == [called |-> FALSE]

\* selected_tool when no tool is selected.
NoTool == "None"

\* The last editor action was neither a wire just added nor its undo.
Other == [op |-> "other"]

\* The "State" block of CircuitGUI.__init__.
GuiState ==
    /\ selected_tool = NoTool
    /\ wire_mode = FALSE
    /\ delete_mode = FALSE
    /\ component_counter = 1
    /\ gui_nodes = {}
    /\ canvas_wires = <<>>
    /\ history = <<>>
    /\ pending_terminals = <<>>
    /\ last = Other

Range(s) == {s[i] : i \in 1..Len(s)}

InSeq(x, s) == \E i \in 1..Len(s) : s[i] = x

(***************************************************************************)
(* class DisjointSet                                                       *)
(***************************************************************************)

\* DisjointSet.__init__
EmptyDSU == [keys |-> <<>>, parent |-> [k \in {} |-> k], rank |-> [k \in {} |-> 0]]

\* DisjointSet.add
add(d, x) ==
    IF x \in DOMAIN d.parent
    THEN d
    ELSE [keys   |-> Append(d.keys, x),
          parent |-> (x :> x) @@ d.parent,
          rank   |-> (x :> 0) @@ d.rank]

\* The while loop of DisjointSet.find: follows parent links from x, stops at a
\* self-parented node or at a node already in visited.
RECURSIVE FindLoop(_, _, _)
FindLoop(parent, x, visited) ==
    IF parent[x] = x
    THEN [root |-> x, visited |-> visited]
    ELSE IF InSeq(x, visited)
         THEN [root |-> x, visited |-> visited]
         ELSE FindLoop(parent, parent[x], Append(visited, x))

\* A compression that skips the representative itself.
CompressNotRoot(parent, visited, root) ==
    [k \in DOMAIN parent |-> IF InSeq(k, visited) /\ k # root THEN root ELSE parent[k]]

\* The path-compression loop of DisjointSet.find.
Compress(parent, visited, root) ==
    [k \in DOMAIN parent |-> IF InSeq(k, visited) THEN root ELSE parent[k]]

\* DisjointSet.find: the returned root, the nodes visited, and the object afterwards.
find(d, x) ==
    LET d1 == add(d, x)
        w  == FindLoop(d1.parent, x, <<>>)
    IN  [root    |-> w.root,
         visited |-> w.visited,
         dsu     |-> [d1 EXCEPT !.parent = Compress(d1.parent, w.visited, w.root)]]

\* The rank comparison and re-parenting of DisjointSet.union, on two roots.
Link(d, root_a, root_b) ==
    IF root_a = root_b
    THEN d
    ELSE IF d.rank[root_a] < d.rank[root_b]
         THEN [d EXCEPT !.parent[root_a] = root_b]
         ELSE IF d.rank[root_a] > d.rank[root_b]
              THEN [d EXCEPT !.parent[root_b] = root_a]
              ELSE [d EXCEPT !.parent[root_b] = root_a, !.rank[root_a] = @ + 1]

\* A union that links the arguments themselves instead of their representatives.
union_of_arguments(d, a, b) ==
    LET fa == find(d, a)
        fb == find(fa.dsu, b)
    IN  IF fa.root = fb.root THEN fb.dsu ELSE Link(fb.dsu, a, b)

\* DisjointSet.union
union(d, a, b) ==
    LET fa == find(d, a)
        fb == find(fa.dsu, b)
    IN  Link(fb.dsu, fa.root, fb.root)

(***************************************************************************)
(* rename_columns_with_dsu                                                 *)
(***************************************************************************)

\* "for comp in components: dsu.add(comp[1]); dsu.add(comp[2])"
RECURSIVE RegisterComponents(_, _)
RegisterComponents(d, comps) ==
    IF comps = <<>>
    THEN d
    ELSE RegisterComponents(add(add(d, Head(comps)[2]), Head(comps)[3]), Tail(comps))

\* "for a, b in connections: dsu.add(a); dsu.add(b); dsu.union(a, b)"
RECURSIVE ProcessConnections(_, _)
ProcessConnections(d, conns) ==
    IF conns = <<>>
    THEN d
    ELSE LET a == Head(conns)[1]
             b == Head(conns)[2]
         IN  ProcessConnections(union(add(add(d, a), b), a, b), Tail(conns))

\* "for node in list(dsu.parent.keys()): if dsu.find(node) == ground_root:
\*      dsu.parent[node] = "Ground""
RECURSIVE RepointLoop(_, _, _)
RepointLoop(d, nodes, ground_root) ==
    IF nodes = <<>>
    THEN d
    ELSE LET node == Head(nodes)
             f    == find(d, node)
             d1   == IF f.root = ground_root
                     THEN [f.dsu EXCEPT !.parent[node] = GROUND]
                     ELSE f.dsu
         IN  RepointLoop(d1, Tail(nodes), ground_root)

\* The ground-canonicalization step: ground_root, the repoint loop, and the final
\* dsu.parent["Ground"] = "Ground".
Canonicalize(d) ==
    IF GROUND \in DOMAIN d.parent
    THEN LET f == find(d, GROUND)
         IN  [RepointLoop(f.dsu, f.dsu.keys, f.root) EXCEPT !.parent[GROUND] = GROUND]
    ELSE d

\* The numbering loop: "for node in dsu.parent: root = dsu.find(node) ...".
RECURSIVE MappingLoop(_, _, _, _)
MappingLoop(d, nodes, mapping, counter) ==
    IF nodes = <<>>
    THEN [dsu |-> d, mapping |-> mapping]
    ELSE LET f    == find(d, Head(nodes))
             root == f.root
         IN  IF root \in DOMAIN mapping
             THEN MappingLoop(f.dsu, Tail(nodes), mapping, counter)
             ELSE IF root = GROUND
                  THEN MappingLoop(f.dsu, Tail(nodes), (root :> 0) @@ mapping, counter)
                  ELSE MappingLoop(f.dsu, Tail(nodes), (root :> counter) @@ mapping,
                                   counter + 1)

\* The emission loop: each row has its two terminal columns rewritten to
\* str(mapping[find(terminal)]) and is appended to final.
RECURSIVE EmitLoop(_, _, _, _)
EmitLoop(d, mapping, comps, final) ==
    IF comps = <<>>
    THEN final
    ELSE LET comp == Head(comps)
             f1   == find(d, comp[2])
             f2   == find(f1.dsu, comp[3])
             row  == <<comp[1], ToString(mapping[f1.root]), ToString(mapping[f2.root]),
                       comp[4]>>
         IN  EmitLoop(f2.dsu, mapping, Tail(comps), Append(final, row))

\* The DisjointSet of a call after the two registration loops.
Registration(comps, conns) == ProcessConnections(RegisterComponents(EmptyDSU, comps), conns)

\* A numbering whose counter starts at 0 instead of 1.
Numbering_from_zero(comps, conns) ==
    LET d == Canonicalize(Registration(comps, conns))
    IN  MappingLoop(d, d.keys, [k \in {} |-> 0], 0)

\* The DisjointSet and the mapping of a call after the numbering loop.
Numbering(comps, conns) ==
    LET d == Canonicalize(Registration(comps, conns))
    IN  MappingLoop(d, d.keys, [k \in {} |-> 0], 1)

\* rename_columns_with_dsu: final is the returned list. The rows of the argument are
\* rewritten in place and are the very objects appended to final, so the caller's
\* list reads as final after the call (components).
rename_columns_with_dsu(comps, conns) ==
    LET m     == Numbering(comps, conns)
        final == EmitLoop(m.dsu, m.mapping, comps, <<>>)
    IN  [final |-> final, components |-> final]

(***************************************************************************)
(* Bounds and identifier universes                                         *)
(***************************************************************************)

\* Number of opaque identifiers used to drive a DisjointSet directly.
NumIds == 4

Ids == {"t" \o ToString(i) : i \in 1..NumIds}

\* Number of two-terminal components a schematic draws on.
NumParts == 2

\* Longest connection list handed to rename_columns_with_dsu directly.
MaxWires == 3

\* The identifiers build_terminals derives for a two-terminal component.
TerminalNames(name) == <<name \o ".n1", name \o ".n2">>

PartName(i) == "R" \o ToString(i)

PartValue(i) == ToString(i) \o "k"

\* The row generate_netlist builds for the i-th two-terminal component.
PartRow(i) ==
    <<PartName(i), TerminalNames(PartName(i))[1], TerminalNames(PartName(i))[2], PartValue(i)>>

\* Number of ground symbols a schematic draws on.
NumGrounds == 2

\* Longest CircuitGraph.components and CircuitGraph.connections.
MaxComps == 3

MaxConns == 2

\* Component.value of a ground symbol (place_component passes None).
None == "None"

\* A two-terminal component as place_component builds it (Component.__init__, then
\* build_terminals): terminals lists the keys of Component.terminals in dict order.
Part(i) ==
    [name |-> PartName(i), ctype |-> "resistor",
     terminals |-> TerminalNames(PartName(i)), value |-> PartValue(i)]

\* A ground symbol as place_component builds it: one terminal, "Ground".
GroundSymbol(i) ==
    [name |-> "G" \o ToString(i), ctype |-> "ground", terminals |-> <<GROUND>>,
     value |-> None]

\* A Component as Component.__init__ leaves it: terminals is still empty.
Unbuilt == [name |-> "C0", ctype |-> "capacitor", terminals |-> <<>>, value |-> "1u"]

ComponentPool ==
    {Part(i) : i \in 1..NumParts} \cup {GroundSymbol(i) : i \in 1..NumGrounds} \cup {Unbuilt}

\* Every terminal a wire can end on: the terminals of the parts and the ground terminal.
WireEnds == {TerminalNames(PartName(i))[j] : i \in 1..NumParts, j \in 1..2} \cup {GROUND}

(***************************************************************************)
(* SpecDSU: a DisjointSet driven by arbitrary add / find / union calls     *)
(***************************************************************************)

\* The partition generated by the union calls: the block of x, or {x} if x is new.
BlockOf(P, x) == IF \E B \in P : x \in B THEN CHOOSE B \in P : x \in B ELSE {x}

Registered(P, x) == P \cup {BlockOf(P, x)}

Merged(P, a, b) ==
    LET Q == Registered(Registered(P, a), b)
        A == BlockOf(Q, a)
        B == BlockOf(Q, b)
    IN  (Q \ {A, B}) \cup {A \cup B}

InitDSU ==
    /\ dsu = EmptyDSU
    /\ classes = {}
    /\ ret = NoCall
    /\ rows = <<>> /\ wires = <<>> /\ renamed = NoCall
    /\ components = <<>> /\ connections = <<>> /\ call = NoCall /\ prev = NoCall
    /\ GuiState

Add(x) ==
    /\ dsu' = add(dsu, x)
    /\ classes' = Registered(classes, x)
    /\ UNCHANGED <<ret, renameVars, graphVars, guiVars>>

Find(x) ==
    /\ dsu' = find(dsu, x).dsu
    /\ classes' = Registered(classes, x)
    /\ UNCHANGED <<ret, renameVars, graphVars, guiVars>>

Union(a, b) ==
    /\ dsu' = union(dsu, a, b)
    /\ classes' = Merged(classes, a, b)
    /\ UNCHANGED <<ret, renameVars, graphVars, guiVars>>

NextDSU ==
    \/ \E x \in Ids : Add(x)
    \/ \E x \in Ids : Find(x)
    \/ \E a, b \in Ids : Union(a, b)

SpecDSU == InitDSU /\ [][NextDSU]_vars

\* find(x) followed by find(y) on the same object return the same representative.
SameRoot(d, x, y) ==
    LET fx == find(d, x)
    IN  fx.root = find(fx.dsu, y).root

\* C2. Partition correctness: after any sequence of add, find and union calls on
\* an initially empty DisjointSet, the registered identifiers are exactly those
\* named in a call, and two of them have the same representative if and only if
\* they lie in the same block of the partition generated by the union calls (the
\* reflexive-symmetric-transitive closure of the pairs passed to union).
C2_PartitionCorrectness ==
    /\ DOMAIN dsu.parent = UNION classes
    /\ \A x, y \in DOMAIN dsu.parent :
          SameRoot(dsu, x, y) <=> (BlockOf(classes, x) = BlockOf(classes, y))

\* A block of three identifiers, two of them joined only through the third, next to
\* another block.
C2_Witness ==
    /\ Cardinality(classes) >= 2
    /\ \E B \in classes : Cardinality(B) >= 3
    /\ \E x \in DOMAIN dsu.parent : dsu.parent[x] # x /\ dsu.rank[dsu.parent[x]] = 1

(***************************************************************************)
(* SpecCorrupt: find on a fabricated parent map                            *)
(***************************************************************************)

IdSeq(n) == [i \in 1..n |-> "t" \o ToString(i)]

\* Any parent map over the first n identifiers whose values are registered keys.
InitCorrupt ==
    /\ \E n \in 0..NumIds :
          \E p \in [Range(IdSeq(n)) -> Range(IdSeq(n))] :
             dsu = [keys |-> IdSeq(n), parent |-> p, rank |-> [k \in Range(IdSeq(n)) |-> 0]]
    /\ classes = {}
    /\ ret = NoCall
    /\ rows = <<>> /\ wires = <<>> /\ renamed = NoCall
    /\ components = <<>> /\ connections = <<>> /\ call = NoCall /\ prev = NoCall
    /\ GuiState

FindCorrupt(x) ==
    LET f == find(dsu, x)
    IN  /\ dsu' = f.dsu
        /\ ret' = [called |-> TRUE, x |-> x, root |-> f.root, visited |-> f.visited,
                   before |-> add(dsu, x).parent]
        /\ UNCHANGED <<classes, renameVars, graphVars, guiVars>>

NextCorrupt == \E x \in Ids : FindCorrupt(x)

SpecCorrupt == InitCorrupt /\ [][NextCorrupt]_vars

\* The nodes a find call went through: the visited list and the node it stopped at.
Traversed(r) == Range(r.visited) \cup {r.root}

\* C10. Corruption guard: on any parent map whose values are registered keys, find(x)
\* stops after at most one step per key; the nodes traversed are the parent chain
\* from x; the returned node is its own parent afterwards and every traversed node
\* (x included) points at it; links of the other nodes are untouched; and when the
\* chain ran into a cycle the returned node is the first node met a second time.
C10_CorruptionGuard ==
    ret.called =>
        LET v == ret.visited
            r == ret.root
            n == Len(v)
        IN  /\ n <= Cardinality(DOMAIN ret.before)
            /\ IF n = 0 THEN r = ret.x ELSE v[1] = ret.x /\ r = ret.before[v[n]]
            /\ \A i \in 1..(n - 1) : v[i + 1] = ret.before[v[i]]
            /\ \A i, j \in 1..n : i # j => v[i] # v[j]
            /\ ret.x \in Traversed(ret)
            /\ dsu.parent[r] = r
            /\ \A t \in Traversed(ret) : dsu.parent[t] = r
            /\ \A k \in DOMAIN ret.before :
                  k \notin Traversed(ret) => dsu.parent[k] = ret.before[k]
            /\ DOMAIN dsu.parent = DOMAIN ret.before
            /\ ret.before[r] # r => r \in Range(v)

\* A find that entered a cycle with no self-parented root through a tail: x itself
\* is not on the cycle, and the cycle has at least two nodes.
C10_Witness ==
    /\ ret.called
    /\ ret.before[ret.root] # ret.root
    /\ Len(ret.visited) >= 3
    /\ ret.visited[1] # ret.root
    /\ ret.visited[2] = ret.root

(***************************************************************************)
(* SpecRename: rename_columns_with_dsu applied to bounded inputs           *)
(***************************************************************************)

\* The rows of the first n parts; wires may end on terminals of parts that have no
\* row (a removed component leaves its connections behind).
InitRename ==
    /\ \E n \in 0..NumParts : rows = [i \in 1..n |-> PartRow(i)]
    /\ wires = <<>>
    /\ renamed = NoCall
    /\ dsu = EmptyDSU /\ classes = {} /\ ret = NoCall
    /\ components = <<>> /\ connections = <<>> /\ call = NoCall /\ prev = NoCall
    /\ GuiState

AddWire(a, b) ==
    /\ Len(wires) < MaxWires
    /\ wires' = Append(wires, <<a, b>>)
    /\ renamed' = NoCall
    /\ UNCHANGED <<rows, dsuVars, graphVars, guiVars>>

Rename ==
    /\ ~renamed.called
    /\ renamed' = [called |-> TRUE] @@ rename_columns_with_dsu(rows, wires)
    /\ UNCHANGED <<rows, wires, dsuVars, graphVars, guiVars>>

NextRename ==
    \/ \E a, b \in WireEnds : AddWire(a, b)
    \/ Rename

SpecRename == InitRename /\ [][NextRename]_vars

\* The terminals named by the rows.
RowTerminals(comps) == UNION {{comps[i][2], comps[i][3]} : i \in 1..Len(comps)}

\* The partition of the terminals of comps and conns into connection classes: every
\* terminal starts alone and each connection merges the blocks of its two ends.
RECURSIVE Nets(_, _)
Nets(P, conns) ==
    IF conns = <<>>
    THEN P
    ELSE Nets(Merged(P, Head(conns)[1], Head(conns)[2]), Tail(conns))

ConnectionClasses(comps, conns) == Nets({{t} : t \in RowTerminals(comps)}, conns)

Joined(P, a, b) == BlockOf(P, a) = BlockOf(P, b)

GroundWired(conns) == \E i \in 1..Len(conns) : GROUND \in {conns[i][1], conns[i][2]}

\* The node number the call assigns to terminal t.
NodeOf(m, t) == m.mapping[find(m.dsu, t).root]

\* The two node columns of every returned row.
NodeColumns(final) == [i \in 1..Len(final) |-> <<final[i][2], final[i][3]>>]

\* C1. Ground pinning: when "Ground" is an end of some connection, after the
\* ground-canonicalization step find(t) is "Ground" exactly for the terminals joined
\* to "Ground" by a chain of connections, and exactly those terminals get node 0.
C1_GroundPinning ==
    (renamed.called /\ GroundWired(wires)) =>
        LET P == ConnectionClasses(rows, wires)
            d == Canonicalize(Registration(rows, wires))
            m == Numbering(rows, wires)
        IN  \A t \in DOMAIN d.parent :
               /\ (find(d, t).root = GROUND) <=> Joined(P, t, GROUND)
               /\ (NodeOf(m, t) = 0) <=> Joined(P, t, GROUND)

\* Terminals in order of appearance: both terminals of each row in row order, then
\* both ends of each connection in connection order.
Appearances(comps, conns) ==
    [i \in 1..(2 * Len(comps) + 2 * Len(conns)) |->
        IF i <= 2 * Len(comps)
        THEN comps[(i + 1) \div 2][2 + ((i + 1) % 2)]
        ELSE conns[(i - 2 * Len(comps) + 1) \div 2][1 + ((i + 1) % 2)]]

\* The position at which a terminal, or the earliest member of a class, is registered.
FirstAppearance(occ, B) == CHOOSE i \in 1..Len(occ) :
    /\ occ[i] \in B
    /\ \A j \in 1..(i - 1) : occ[j] \notin B

\* The terminals in first-registration order, each once.
RegistrationOrder(comps, conns) ==
    LET occ == Appearances(comps, conns)
        firsts == {i \in 1..Len(occ) : \A j \in 1..(i - 1) : occ[j] # occ[i]}
    IN  [k \in 1..Cardinality(firsts) |->
            occ[CHOOSE i \in firsts : Cardinality({j \in firsts : j < i}) = k - 1]]

\* C3. Sequential first-registration numbering: the connection classes other than
\* the class of "Ground", ordered by their earliest-registered member, receive the
\* numbers 1, 2, ..., k in that order: every terminal of the i-th class gets node i.
C3_SequentialNumbering ==
    renamed.called =>
        LET P   == ConnectionClasses(rows, wires)
            occ == Appearances(rows, wires)
            m   == Numbering(rows, wires)
            NG  == {B \in P : GROUND \notin B}
        IN  \A B \in NG : \A t \in B :
               NodeOf(m, t) = 1 + Cardinality({A \in NG : FirstAppearance(occ, A)
                                                           < FirstAppearance(occ, B)})

\* C4. Determinism under reordering: a permutation of the connection list that
\* registers the terminals in the same order yields the same node columns.
C4_ReorderingDeterminism ==
    renamed.called =>
        \A p \in Permutations(1..Len(wires)) :
            LET reordered == [i \in 1..Len(wires) |-> wires[p[i]]]
            IN  RegistrationOrder(rows, reordered) = RegistrationOrder(rows, wires)
                   => NodeColumns(rename_columns_with_dsu(rows, reordered).final)
                         = NodeColumns(renamed.final)

\* C5. Duplicate and self-loop tolerance: appending a self-pair of a registered
\* terminal, or a repetition of a pair already in the list, leaves the node columns of
\* every row unchanged.
C5_DuplicateTolerance ==
    renamed.called =>
        LET registered == DOMAIN Registration(rows, wires).parent
            inert == {<<a, a>> : a \in registered} \cup Range(wires)
        IN  \A pair \in inert :
               NodeColumns(rename_columns_with_dsu(rows, Append(wires, pair)).final)
                  = NodeColumns(renamed.final)

(***************************************************************************)
(* Spec: a CircuitGraph under add_component / remove_component /           *)
(* add_connection / generate_netlist                                       *)
(***************************************************************************)

\* list.remove: drops the first occurrence of comp.
RECURSIVE ListRemove(_, _)
ListRemove(s, comp) ==
    IF s = <<>>
    THEN s
    ELSE IF Head(s) = comp THEN Tail(s) ELSE <<Head(s)>> \o ListRemove(Tail(s), comp)

\* The loop of generate_netlist, with break in place of the first continue.
RECURSIVE netlist_rows_break(_)
netlist_rows_break(comps) ==
    IF comps = <<>>
    THEN <<>>
    ELSE LET comp == Head(comps)
         IN  IF comp.ctype = "ground"
             THEN <<>>
             ELSE IF Len(comp.terminals) < 2
                  THEN netlist_rows_break(Tail(comps))
                  ELSE <<<<comp.name, comp.terminals[1], comp.terminals[2], comp.value>>>>
                          \o netlist_rows_break(Tail(comps))

\* The loop of generate_netlist: the freshly allocated rows handed to
\* rename_columns_with_dsu.
RECURSIVE netlist_rows(_)
netlist_rows(comps) ==
    IF comps = <<>>
    THEN <<>>
    ELSE LET comp == Head(comps)
         IN  IF comp.ctype = "ground"
             THEN netlist_rows(Tail(comps))
             ELSE IF Len(comp.terminals) < 2
                  THEN netlist_rows(Tail(comps))
                  ELSE <<<<comp.name, comp.terminals[1], comp.terminals[2], comp.value>>>>
                          \o netlist_rows(Tail(comps))

Init ==
    /\ components = <<>>
    /\ connections = <<>>
    /\ call = NoCall
    /\ prev = NoCall
    /\ dsu = EmptyDSU /\ classes = {} /\ ret = NoCall
    /\ rows = <<>> /\ wires = <<>> /\ renamed = NoCall
    /\ GuiState

\* CircuitGraph.add_component
add_component(comp) ==
    /\ Len(components) < MaxComps
    /\ ~InSeq(comp, components)
    /\ components' = Append(components, comp)
    /\ call' = NoCall
    /\ prev' = NoCall
    /\ UNCHANGED <<connections, dsuVars, renameVars, guiVars>>

\* CircuitGraph.remove_component
remove_component(comp) ==
    /\ components' = IF InSeq(comp, components) THEN ListRemove(components, comp)
                                                ELSE components
    /\ call' = NoCall
    /\ prev' = NoCall
    /\ UNCHANGED <<connections, dsuVars, renameVars, guiVars>>

\* CircuitGraph.add_connection
add_connection(t1, t2) ==
    /\ Len(connections) < MaxConns
    /\ connections' = Append(connections, <<t1, t2>>)
    /\ call' = NoCall
    /\ prev' = NoCall
    /\ UNCHANGED <<components, dsuVars, renameVars, guiVars>>

\* The record of one generate_netlist call: the graph as it was when the call began,
\* the local netlist as built and as it reads after rename_columns_with_dsu returned,
\* and the returned list.
CallRecord(before, netlist, r) ==
    [called      |-> TRUE,
     components  |-> before[1],
     connections |-> before[2],
     netlist     |-> netlist,
     rewritten   |-> r.components,
     returned    |-> r.final]

\* A generate_netlist whose rows are the Component records themselves: the in-place
\* rewrite of rename_columns_with_dsu then lands in CircuitGraph.components.
generate_netlist_in_place ==
    LET netlist == netlist_rows(components)
        r       == rename_columns_with_dsu(netlist, connections)
        Node(c) == LET i == CHOOSE i \in 1..Len(netlist) : netlist[i][1] = c.name
                   IN  <<r.final[i][2], r.final[i][3]>>
    IN  /\ call' = CallRecord(<<components, connections>>, netlist, r)
        /\ prev' = IF call.called THEN [called |-> TRUE, returned |-> call.returned]
                                  ELSE NoCall
        /\ components' = [i \in 1..Len(components) |->
                             IF \E j \in 1..Len(netlist) : netlist[j][1] = components[i].name
                             THEN [components[i] EXCEPT !.terminals = Node(components[i])]
                             ELSE components[i]]
        /\ UNCHANGED <<connections, dsuVars, renameVars, guiVars>>

\* A generate_netlist whose netlist list outlives the call: the rows of the previous
\* call are still in it when the next call appends.
generate_netlist_accumulating ==
    LET kept    == IF call.called THEN call.netlist ELSE <<>>
        netlist == kept \o netlist_rows(components)
        r       == rename_columns_with_dsu(netlist, connections)
    IN  /\ call' = CallRecord(<<components, connections>>, netlist, r)
        /\ prev' = IF call.called THEN [called |-> TRUE, returned |-> call.returned]
                                  ELSE NoCall
        /\ UNCHANGED <<components, connections, dsuVars, renameVars, guiVars>>

\* CircuitGraph.generate_netlist: the Component records and the connection list are
\* only read; the rows are new lists, rewritten by rename_columns_with_dsu.
generate_netlist ==
    LET netlist == netlist_rows(components)
        r       == rename_columns_with_dsu(netlist, connections)
    IN  /\ call' = CallRecord(<<components, connections>>, netlist, r)
        /\ prev' = IF call.called THEN [called |-> TRUE, returned |-> call.returned]
                                  ELSE NoCall
        /\ UNCHANGED <<components, connections, dsuVars, renameVars, guiVars>>

Next ==
    \/ \E comp \in ComponentPool : add_component(comp)
    \/ \E comp \in ComponentPool : remove_component(comp)
    \/ \E t1, t2 \in WireEnds : add_connection(t1, t2)
    \/ generate_netlist

Spec == Init /\ [][Next]_vars

\* The node strings appearing in the returned rows.
NodeStrings(final) == UNION {{final[i][2], final[i][3]} : i \in 1..Len(final)}

\* C6. Floating ground / no-ground floor: when no connection of the graph ends on
\* "Ground", however many ground symbols the graph holds, no returned row contains
\* node 0, every node is a positive number, and a non-empty output contains node 1.
C6_NoGroundFloor ==
    (call.called /\ ~GroundWired(connections)) =>
        LET nodes == NodeStrings(call.returned)
            most  == 2 * Len(components) + 2 * Len(connections)
        IN  /\ ToString(0) \notin nodes
            /\ \A n \in nodes : \E k \in 1..most : n = ToString(k)
            /\ call.returned # <<>> => ToString(1) \in nodes

\* A netlist generated from a graph holding a ground symbol and a wired part, with no
\* wire on "Ground".
C6_Witness ==
    /\ call.called
    /\ ~GroundWired(connections)
    /\ \E i \in 1..Len(components) : components[i].ctype = "ground"
    /\ connections # <<>>
    /\ \E i \in 1..Len(call.returned) : call.returned[i][2] = call.returned[i][3]

\* C7. Idempotence: a generate_netlist call that follows another one with no
\* add_component, remove_component or add_connection in between returns the same
\* rows, element for element.
C7_Idempotence == prev.called => call.returned = prev.returned

\* Two calls in a row on a graph with two rows and a wire to "Ground".
C7_Witness ==
    /\ prev.called
    /\ Len(call.returned) >= 2
    /\ GroundWired(connections)
    /\ ToString(0) \in NodeStrings(call.returned)

Emitted(comp) == comp.ctype # "ground" /\ Len(comp.terminals) >= 2

\* C9. Row emission: the output has exactly one row per component that is no ground
\* symbol and has at least two terminals, in the order of CircuitGraph.components,
\* carrying that component's name and value; the other components have no row.
C9_RowEmission ==
    call.called =>
        LET kept == SelectSeq(components, Emitted)
        IN  /\ Len(call.returned) = Len(kept)
            /\ \A i \in 1..Len(kept) :
                  /\ call.returned[i][1] = kept[i].name
                  /\ call.returned[i][4] = kept[i].value

\* A call on a graph holding a ground symbol or an unbuilt component ahead of a part,
\* and two parts in all.
C9_Witness ==
    /\ call.called
    /\ Len(call.returned) = 2
    /\ Len(components) = 3
    /\ ~Emitted(components[1])

(***************************************************************************)
(* SpecGUI: the editor window (CircuitGUI) driving its CircuitGraph        *)
(*                                                                         *)
(* Canvas items and coordinates are left out: CircuitGUI.nodes is modelled *)
(* by its key set, a wire dict by its two terminals and a serial number    *)
(* standing for its canvas lines. Dragging and rotation, which write       *)
(* neither CircuitGUI.wires, CircuitGUI.history nor the graph, have no     *)
(* action here.                                                            *)
(***************************************************************************)

\* Highest component_counter value at which a component is still placed.
MaxPlaced == 2

\* Longest CircuitGraph.connections the editor builds.
MaxGuiWires == 2

\* The tools of COMPONENT_CONFIG the editor is driven with.
Tools == {"resistor", "ground"}

\* COMPONENT_CONFIG
Prefix(ctype) == IF ctype = "ground" THEN "G" ELSE "R"

\* The Component place_component creates at counter value n, after build_terminals.
Placed(ctype, n) ==
    [name      |-> Prefix(ctype) \o ToString(n),
     ctype     |-> ctype,
     terminals |-> IF ctype = "ground" THEN <<GROUND>>
                                       ELSE TerminalNames(Prefix(ctype) \o ToString(n)),
     value     |-> IF ctype = "ground" THEN None ELSE PartValue(n)]

\* The terminals with a canvas item to click on: those of the components drawn.
ClickableTerminals == UNION {Range(components[i].terminals) : i \in 1..Len(components)}

InitGUI ==
    /\ components = <<>>
    /\ connections = <<>>
    /\ call = NoCall
    /\ prev = NoCall
    /\ dsu = EmptyDSU /\ classes = {} /\ ret = NoCall
    /\ rows = <<>> /\ wires = <<>> /\ renamed = NoCall
    /\ GuiState

\* CircuitGUI.select_component
select_component(comp_type) ==
    /\ selected_tool' = comp_type
    /\ wire_mode' = FALSE
    /\ delete_mode' = FALSE
    /\ last' = Other
    /\ UNCHANGED <<component_counter, gui_nodes, canvas_wires, history, pending_terminals,
                   graphVars, dsuVars, renameVars>>

\* CircuitGUI.toggle_wire
toggle_wire ==
    /\ wire_mode' = ~wire_mode
    /\ selected_tool' = NoTool
    /\ delete_mode' = FALSE
    /\ last' = Other
    /\ UNCHANGED <<component_counter, gui_nodes, canvas_wires, history, pending_terminals,
                   graphVars, dsuVars, renameVars>>

\* CircuitGUI.toggle_delete
toggle_delete ==
    /\ delete_mode' = ~delete_mode
    /\ wire_mode' = FALSE
    /\ selected_tool' = NoTool
    /\ last' = Other
    /\ UNCHANGED <<component_counter, gui_nodes, canvas_wires, history, pending_terminals,
                   graphVars, dsuVars, renameVars>>

\* CircuitGUI.canvas_left_click on empty canvas leading to place_component; entered
\* is FALSE when the value dialog is cancelled.
place_component(entered) ==
    /\ ~delete_mode
    /\ ~wire_mode
    /\ selected_tool # NoTool
    /\ component_counter <= MaxPlaced
    /\ component_counter' = component_counter + 1
    /\ last' = Other
    /\ IF selected_tool # "ground" /\ ~entered
       THEN UNCHANGED <<gui_nodes, history, graphVars>>
       ELSE LET comp == Placed(selected_tool, component_counter)
            IN  /\ gui_nodes' = gui_nodes \cup Range(comp.terminals)
                /\ components' = Append(components, comp)
                /\ history' = Append(history, <<"add_component", comp>>)
                /\ call' = NoCall
                /\ prev' = NoCall
                /\ UNCHANGED connections
    /\ UNCHANGED <<selected_tool, wire_mode, delete_mode, canvas_wires, pending_terminals,
                   dsuVars, renameVars>>

\* CircuitGUI.terminal_clicked
terminal_clicked(term_name) ==
    /\ wire_mode
    /\ UNCHANGED <<selected_tool, wire_mode, delete_mode, component_counter, gui_nodes,
                   components, dsuVars, renameVars>>
    /\ IF Len(pending_terminals) = 0
       THEN /\ pending_terminals' = <<term_name>>
            /\ last' = Other
            /\ UNCHANGED <<canvas_wires, history, connections, call, prev>>
       ELSE LET t1 == pending_terminals[1]
                t2 == term_name
            IN  IF t1 = t2 \/ t1 \notin gui_nodes \/ t2 \notin gui_nodes
                THEN /\ pending_terminals' = <<>>
                     /\ last' = Other
                     /\ UNCHANGED <<canvas_wires, history, connections, call, prev>>
                ELSE LET wire == [t1 |-> t1, t2 |-> t2, l1 |-> Len(connections) + 1]
                     IN  /\ Len(connections) < MaxGuiWires
                         /\ canvas_wires' = Append(canvas_wires, wire)
                         /\ connections' = Append(connections, <<t1, t2>>)
                         /\ history' = Append(history, <<"add_wire", wire>>)
                         /\ pending_terminals' = <<>>
                         /\ last' = [op |-> "add_wire", before |-> connections,
                                     components |-> components]
                         /\ call' = NoCall
                         /\ prev' = NoCall

\* CircuitGUI.canvas_left_click in delete mode on an item of comp: handle_delete_click
handle_delete_click(comp) ==
    /\ delete_mode
    /\ InSeq(comp, components)
    /\ LET terms == Range(comp.terminals)
           Keep(w) == ~(w.t1 \in terms \/ w.t2 \in terms)
       IN  /\ canvas_wires' = SelectSeq(canvas_wires, Keep)
           /\ gui_nodes' = gui_nodes \ terms
    /\ components' = ListRemove(components, comp)
    /\ history' = Append(history, <<"delete_component", comp>>)
    /\ last' = Other
    /\ call' = NoCall
    /\ prev' = NoCall
    /\ UNCHANGED <<selected_tool, wire_mode, delete_mode, component_counter,
                   pending_terminals, connections, dsuVars, renameVars>>

\* What undo leaves in `last`: the undo of the wire that the action just before added.
AfterUndo(action) ==
    IF action = "add_wire" /\ last.op = "add_wire"
    THEN [op |-> "undo_wire", before |-> last.before, components |-> last.components]
    ELSE Other

\* CircuitGUI.undo
undo ==
    /\ history # <<>>
    /\ LET action == history[Len(history)][1]
           obj    == history[Len(history)][2]
           NotObj(w) == w # obj
       IN  /\ history' = SubSeq(history, 1, Len(history) - 1)
           /\ last' = AfterUndo(action)
           /\ IF action = "add_component"
              THEN /\ gui_nodes' = gui_nodes \ Range(obj.terminals)
                   /\ components' = IF InSeq(obj, components)
                                    THEN ListRemove(components, obj)
                                    ELSE components
                   /\ UNCHANGED canvas_wires
              ELSE IF action = "add_wire"
                   THEN /\ canvas_wires' = SelectSeq(canvas_wires, NotObj)
                        /\ UNCHANGED <<gui_nodes, components>>
                   ELSE /\ gui_nodes' = gui_nodes \cup Range(obj.terminals)
                        /\ components' = Append(components, obj)
                        /\ UNCHANGED canvas_wires
    /\ call' = NoCall
    /\ prev' = NoCall
    /\ UNCHANGED <<selected_tool, wire_mode, delete_mode, component_counter,
                   pending_terminals, connections, dsuVars, renameVars>>

\* CircuitGUI.simulate: the rows generate_netlist returns (then written to output.txt).
simulate ==
    LET netlist == netlist_rows(components)
        r       == rename_columns_with_dsu(netlist, connections)
    IN  /\ call' = CallRecord(<<components, connections>>, netlist, r)
        /\ prev' = IF call.called THEN [called |-> TRUE, returned |-> call.returned]
                                  ELSE NoCall
        /\ last' = Other
        /\ UNCHANGED <<components, connections, selected_tool, wire_mode, delete_mode,
                       component_counter, gui_nodes, canvas_wires, history,
                       pending_terminals, dsuVars, renameVars>>

NextGUI ==
    \/ \E t \in Tools : select_component(t)
    \/ toggle_wire
    \/ toggle_delete
    \/ \E entered \in BOOLEAN : place_component(entered)
    \/ \E t \in ClickableTerminals : terminal_clicked(t)
    \/ \E comp \in Range(components) : handle_delete_click(comp)
    \/ undo
    \/ simulate

SpecGUI == InitGUI /\ [][NextGUI]_vars

\* The rows generate_netlist returns for a graph.
NetlistOf(comps, conns) == rename_columns_with_dsu(netlist_rows(comps), conns).final

\* C11. Undo of a wire restores the netlist input: when terminal_clicked has added a
\* wire and the very next action is undo, CircuitGraph.connections is what it was
\* before the wire was added, and generate_netlist returns the rows it would have
\* returned before the wire existed.
C11_UndoRestoresConnections ==
    last.op = "undo_wire" =>
        /\ connections = last.before
        /\ NetlistOf(components, connections) = NetlistOf(last.components, last.before)

====
